---- MODULE Spec2Model ----
(***************************************************************************)
(* A model of simulate.py: the spot-price simulator                        *)
(* (simulate_spot_prices), the cost calculator (calculate_costs, with      *)
(* parse_time) and the command-line entry point (main).                    *)
(*                                                                         *)
(* Numbers.  Prices, rates, the transfer price and the power draw are      *)
(* Python floats whose values are integers of small magnitude; sums and    *)
(* products of such floats are exact in binary64, so they are TLA+         *)
(* integers here.  Floats that need not be integers (fixed_total, the two  *)
(* cost accumulators and the fields of the summary, which are quotients by *)
(* 100 or by a list length) are binary64 values, represented exactly as    *)
(* records [s, m, e] of value s * m * 2^e and computed with round-to-      *)
(* nearest-even to 53 significant bits, as CPython's float arithmetic does.*)
(* The exponent range of binary64 is never approached by these inputs.     *)
(***************************************************************************)
EXTENDS Integers, Sequences, FiniteSets, TLC

(***************************************************************************)
(* Natural numbers of any size, as little-endian sequences of limbs in     *)
(* 0..Base-1 without leading zero limbs (a 53-bit significand does not fit *)
(* a 32-bit integer).                                                      *)
(***************************************************************************)
LimbBits == 15

Base == 2 ^ LimbBits

Pow2(n) == 2 ^ n

RECURSIVE BigNorm(_)
BigNorm(a) ==
    IF a = <<>> THEN <<>>
    ELSE IF a[Len(a)] = 0 THEN BigNorm(SubSeq(a, 1, Len(a) - 1))
    ELSE a

RECURSIVE BigFromNat(_)
BigFromNat(n) ==
    IF n = 0 THEN <<>> ELSE <<n % Base>> \o BigFromNat(n \div Base)

RECURSIVE BigAddC(_, _, _)
BigAddC(a, b, c) ==
    IF a = <<>> /\ b = <<>>
    THEN IF c = 0 THEN <<>> ELSE <<c>>
    ELSE LET x == (IF a = <<>> THEN 0 ELSE Head(a))
                  + (IF b = <<>> THEN 0 ELSE Head(b)) + c
         IN  <<x % Base>> \o BigAddC(IF a = <<>> THEN <<>> ELSE Tail(a),
                                     IF b = <<>> THEN <<>> ELSE Tail(b),
                                     x \div Base)

BigAdd(a, b) == BigAddC(a, b, 0)

\* a - b - c for a >= b + c, limb by limb with a borrow.
RECURSIVE BigSubB(_, _, _)
BigSubB(a, b, c) ==
    IF a = <<>> THEN <<>>
    ELSE LET x == Head(a) - (IF b = <<>> THEN 0 ELSE Head(b)) - c
         IN  <<x % Base>> \o BigSubB(Tail(a),
                                     IF b = <<>> THEN <<>> ELSE Tail(b),
                                     IF x < 0 THEN 1 ELSE 0)

BigSub(a, b) == BigNorm(BigSubB(a, b, 0))

\* -1, 0 or 1 as a < b, a = b or a > b.
RECURSIVE BigCmpFrom(_, _, _)
BigCmpFrom(a, b, i) ==
    IF i = 0 THEN 0
    ELSE IF a[i] < b[i] THEN -1
    ELSE IF a[i] > b[i] THEN 1
    ELSE BigCmpFrom(a, b, i - 1)

BigCmp(a, b) ==
    IF Len(a) < Len(b) THEN -1
    ELSE IF Len(a) > Len(b) THEN 1
    ELSE BigCmpFrom(a, b, Len(a))

\* a * k + c for 0 <= k < Base.
RECURSIVE BigMulSmallC(_, _, _)
BigMulSmallC(a, k, c) ==
    IF a = <<>> THEN BigFromNat(c)
    ELSE LET x == Head(a) * k + c
         IN  <<x % Base>> \o BigMulSmallC(Tail(a), k, x \div Base)

BigMulSmall(a, k) == BigNorm(BigMulSmallC(a, k, 0))

\* <<quotient, remainder>> of a by d, 0 < d < Base, from the top limb down;
\* q holds the quotient limbs already produced, r the running remainder.
RECURSIVE BigDivFrom(_, _, _, _, _)
BigDivFrom(a, d, i, q, r) ==
    IF i = 0 THEN <<BigNorm(q), r>>
    ELSE LET cur == r * Base + a[i]
         IN  BigDivFrom(a, d, i - 1, <<cur \div d>> \o q, cur % d)

BigDivSmall(a, d) == BigDivFrom(a, d, Len(a), <<>>, 0)

\* a * 2^n.
RECURSIVE BigShl(_, _)
BigShl(a, n) ==
    IF a = <<>> THEN <<>>
    ELSE IF n >= LimbBits THEN <<0>> \o BigShl(a, n - LimbBits)
    ELSE BigMulSmall(a, Pow2(n))

\* <<a \div 2^n, whether a nonzero bit was shifted out>>.
RECURSIVE BigShrSticky(_, _, _)
BigShrSticky(a, n, sticky) ==
    IF a = <<>> THEN <<(<<>>), sticky>>
    ELSE IF n >= LimbBits
         THEN BigShrSticky(Tail(a), n - LimbBits, sticky \/ Head(a) # 0)
    ELSE LET qr == BigDivSmall(a, Pow2(n))
         IN  <<qr[1], sticky \/ qr[2] # 0>>

RECURSIVE BitLenSmall(_)
BitLenSmall(n) == IF n = 0 THEN 0 ELSE 1 + BitLenSmall(n \div 2)

BitLen(a) ==
    IF a = <<>> THEN 0 ELSE LimbBits * (Len(a) - 1) + BitLenSmall(a[Len(a)])

BigOdd(a) == a # <<>> /\ a[1] % 2 = 1

(***************************************************************************)
(* binary64 values: [s |-> 1 or -1, m |-> significand, e |-> exponent],    *)
(* canonical when m is odd, or m = <<>> with s = 1 and e = 0 for zero (the *)
(* sign of zero is not kept: 0.0 == -0.0 and both are falsy in Python).    *)
(***************************************************************************)
Precision == 53

FZero == [s |-> 1, m |-> <<>>, e |-> 0]

RECURSIVE Canon(_, _, _)
Canon(s, m, e) ==
    IF m = <<>> THEN FZero
    ELSE IF Head(m) = 0 THEN Canon(s, Tail(m), e + LimbBits)
    ELSE IF Head(m) % 2 = 0 THEN Canon(s, BigDivSmall(m, 2)[1], e + 1)
    ELSE [s |-> s, m |-> m, e |-> e]

\* The binary64 nearest to s * m * 2^e, ties to the even significand.
Round(s, m, e) ==
    LET extra == BitLen(m) - Precision
    IN  IF extra <= 0 THEN Canon(s, m, e)
        ELSE LET qs    == BigShrSticky(m, extra - 1, FALSE)
                 guard == BigOdd(qs[1])
                 q     == BigDivSmall(qs[1], 2)[1]
                 up    == guard /\ (qs[2] \/ BigOdd(q))
             IN  Canon(s, IF up THEN BigAdd(q, <<1>>) ELSE q, e + extra)

FromInt(n) ==
    IF n < 0 THEN Canon(-1, BigFromNat(-n), 0) ELSE Canon(1, BigFromNat(n), 0)

FNeg(x) == IF x.m = <<>> THEN x ELSE [x EXCEPT !.s = -x.s]

\* x + y in binary64.
FAdd(x, y) ==
    IF x.m = <<>> THEN y
    ELSE IF y.m = <<>> THEN x
    ELSE LET emin == IF x.e < y.e THEN x.e ELSE y.e
             a    == BigShl(x.m, x.e - emin)
             b    == BigShl(y.m, y.e - emin)
             c    == BigCmp(a, b)
         IN  IF x.s = y.s THEN Round(x.s, BigAdd(a, b), emin)
             ELSE IF c = 0 THEN FZero
             ELSE IF c > 0 THEN Round(x.s, BigSub(a, b), emin)
             ELSE Round(y.s, BigSub(b, a), emin)

FSub(x, y) == FAdd(x, FNeg(y))

\* x * k in binary64, for an integer 0 <= k < Base.
FMulInt(x, k) == Round(x.s, BigMulSmall(x.m, k), x.e)

\* x / d in binary64, for an integer 0 < d < Base: the quotient to more than
\* Precision + 2 bits, with a last bit that says whether a remainder is left.
FDivInt(x, d) ==
    IF x.m = <<>> THEN FZero
    ELSE LET k   == IF BitLen(x.m) < Precision + 3 + LimbBits
                    THEN Precision + 3 + LimbBits - BitLen(x.m) ELSE 0
             qr  == BigDivSmall(BigShl(x.m, k), d)
             m2  == BigAddC(BigMulSmall(qr[1], 2), <<>>, IF qr[2] # 0 THEN 1 ELSE 0)
         IN  Round(x.s, m2, x.e - k - 1)

(***************************************************************************)
(* Optional values (argparse leaves an absent option None): <<>> is None,  *)
(* <<v>> is the value v.  Python's truth test of an optional number.       *)
(***************************************************************************)
None == <<>>

Some(v) == <<v>>

\* `not x` is False: x is neither None nor zero (fixed_rate, an integer-valued float).
Truthy(x) == x # None /\ x[1] # 0

\* The same test of a binary64 value (fixed_total).
TruthyF(x) == x # None /\ x[1].m # <<>>

(***************************************************************************)
(* The bounds of the model.                                                *)
(***************************************************************************)
\* --seed takes the values 0..MaxSeed.
MaxSeed == 2

\* random() is one of 0/UnitDraw, 1/UnitDraw, ..., UnitDraw/UnitDraw.
UnitDraw == 2

\* Price series and num_hours given directly have lengths 0..MaxLen.
MaxLen == 2

(***************************************************************************)
(* The random module: a process-wide generator whose draws are a function  *)
(* of the seed.  The generator's state is the position r in a cycle of     *)
(* UnitDraw + 1 draws; None before random.seed is called.                  *)
(***************************************************************************)
RngStates == 0..UnitDraw

Seeded(seed) == seed % (UnitDraw + 1)

\* The generator's state k draws after state r.
DrawAt(r, k) == (r + k) % (UnitDraw + 1)

\* random.uniform(a, b) = a + (b - a) * random(), with random() = u / UnitDraw.
Uniform(a, b, u) == a + ((b - a) * u) \div UnitDraw

(***************************************************************************)
(* simulate_spot_prices                                                    *)
(***************************************************************************)
HoursPerMonth == 730

DefaultHours == 8760

\* 6 <= (hour % 24) <= 9 or 17 <= (hour % 24) <= 20
SimPeak(h) == (6 <= h % 24 /\ h % 24 <= 9) \/ (17 <= h % 24 /\ h % 24 <= 20)

SimMonth(h) == ((h \div HoursPerMonth) % 12) + 1

\* The <<a, b>> of the random.uniform(a, b) that the loop body reaches at `h`.
PriceRange_NoPlusOne(h) ==
    LET month == (h \div HoursPerMonth) % 12
    IN  IF month \in {12, 1, 2}
        THEN IF SimPeak(h) THEN <<8, 20>> ELSE <<2, 10>>
        ELSE IF month \in {3, 4, 5}
        THEN IF SimPeak(h) THEN <<5, 15>> ELSE <<-1, 5>>
        ELSE IF month \in {6, 7, 8}
        THEN IF SimPeak(h) THEN <<4, 12>> ELSE <<-4, 4>>
        ELSE IF SimPeak(h) THEN <<6, 16>> ELSE <<2, 6>>

PriceRange(h) ==
    LET month == SimMonth(h)
    IN  IF month \in {12, 1, 2}
        THEN IF SimPeak(h) THEN <<8, 20>> ELSE <<2, 10>>
        ELSE IF month \in {3, 4, 5}
        THEN IF SimPeak(h) THEN <<5, 15>> ELSE <<-1, 5>>
        ELSE IF month \in {6, 7, 8}
        THEN IF SimPeak(h) THEN <<4, 12>> ELSE <<-4, 4>>
        ELSE IF SimPeak(h) THEN <<6, 16>> ELSE <<2, 6>>

\* The price the loop body appends at `h` when the generator is in state r.
SimPrice(h, r) == Uniform(PriceRange(h)[1], PriceRange(h)[2], r)

\* The whole call, from generator state r: one draw per hour, in order.
simulate_spot_prices(n, r) == [i \in 1..n |-> SimPrice(i - 1, DrawAt(r, i - 1))]

(***************************************************************************)
(* calculate_costs: its inputs                                             *)
(***************************************************************************)
\* "HH:MM:SS" is the triple of its fields; h * 3600 + m * 60 + s.
parse_time(time_str) == time_str[1] * 3600 + time_str[2] * 60 + time_str[3]

Period(t0, t1, kw, ms) ==
    [start_time |-> t0, stop_time |-> t1, kw_draw |-> kw, months |-> ms]

Entry(ps) == [consumption_periods |-> ps]

\* The period of the end-to-end scenario: 06:00:00-09:00:00 in January.
MorningPeriod == Period(<<6, 0, 0>>, <<9, 0, 0>>, 1, <<1>>)

\* From midnight, months out of order.
NightPeriod == Period(<<0, 0, 0>>, <<3, 0, 0>>, 2, <<2, 1>>)

\* Times below one minute: start and stop are small numbers of seconds.
SecondsPeriod == Period(<<0, 0, 5>>, <<0, 0, 9>>, 1, <<1>>)

\* Windows that wrap past midnight.
EveningPeriod == Period(<<22, 0, 0>>, <<6, 0, 0>>, 1, <<1>>)

WrapSecondsPeriod == Period(<<0, 0, 20>>, <<0, 0, 4>>, 3, <<12, 3>>)

NoMonthPeriod == Period(<<0, 0, 0>>, <<1, 0, 0>>, 1, <<>>)

\* The second hour of the day alone.
SecondHourPeriod == Period(<<0, 0, 1>>, <<0, 0, 2>>, 1, <<1>>)

ConsumptionInputs ==
    { <<>>,
      <<Entry(<<MorningPeriod>>)>>,
      <<Entry(<<NightPeriod>>)>>,
      <<Entry(<<SecondsPeriod, NoMonthPeriod, SecondHourPeriod>>), Entry(<<>>),
        Entry(<<WrapSecondsPeriod>>)>>,
      <<Entry(<<EveningPeriod>>)>> }

PriceValues == {-4, 3, 20}

RECURSIVE SeqsUpTo(_, _)
SeqsUpTo(S, n) ==
    IF n = 0 THEN {<<>>}
    ELSE LET shorter == SeqsUpTo(S, n - 1)
         IN  shorter \cup {Append(q, x) : q \in {t \in shorter : Len(t) = n - 1}, x \in S}

\* Any short series, and simulated series that reach into the second month.
PriceInputs ==
    SeqsUpTo(PriceValues, MaxLen)
      \cup {simulate_spot_prices(HoursPerMonth + 1, r) : r \in RngStates}

FixedRateInputs == {None, Some(0), Some(20)}

\* fixed_total: absent, 0.0, 0.007 (the float nearest 7/1000) and 1200.0.
FixedTotalInputs ==
    {None, Some(FZero), Some(FDivInt(FromInt(7), 1000)), Some(FromInt(1200))}

TransferInputs == {5}

(***************************************************************************)
(* The state.  pc is the place of control; caller says whether the         *)
(* function running was called by main or directly; exc is the exception   *)
(* that ended the run.  The other variables are the program's: main's      *)
(* args, the random module's generator, and the parameters and locals of   *)
(* simulate_spot_prices (num_hours, sim_hour for its `hour`, spot_prices)  *)
(* and of calculate_costs (ci, pi, mi are the places of co, cpo and month  *)
(* in their lists).                                                        *)
(***************************************************************************)
VARIABLES pc, caller, exc, args, rng, num_hours, sim_hour, spot_prices,
          consumption_data, fixed_rate, transfer_price, fixed_total,
          total_variable_cost, total_fixed_cost, peak_prices, off_peak_prices,
          ci, pi, mi, day, hour, result, printed

vars == <<pc, caller, exc, args, rng, num_hours, sim_hour, spot_prices,
          consumption_data, fixed_rate, transfer_price, fixed_total,
          total_variable_cost, total_fixed_cost, peak_prices, off_peak_prices,
          ci, pi, mi, day, hour, result, printed>>

mainVars == <<args, printed>>

simVars == <<num_hours, sim_hour>>

calcParams == <<consumption_data, fixed_rate, transfer_price, fixed_total>>

calcLocals == <<total_variable_cost, total_fixed_cost, peak_prices, off_peak_prices,
                ci, pi, mi, day, hour>>

NoArgs ==
    [seed |-> 0, fixed_rate |-> None, fixed_total |-> None, transfer_price |-> 0]

\* Values of the locals of a function that has not been entered.
CalcIdle ==
    /\ total_variable_cost = FZero
    /\ total_fixed_cost = FZero
    /\ peak_prices = <<>>
    /\ off_peak_prices = <<>>
    /\ ci = 1 /\ pi = 1 /\ mi = 1 /\ day = 0 /\ hour = 0
    /\ result = None

(***************************************************************************)
(* simulate_spot_prices, one action per pass of its loop                   *)
(***************************************************************************)
\* spot_prices = []
SimEnter ==
    /\ pc = "sim_call"
    /\ spot_prices' = <<>>
    /\ sim_hour' = 0
    /\ pc' = "sim_loop"
    /\ UNCHANGED <<caller, exc, rng, num_hours, mainVars, calcParams, calcLocals, result>>

\* for hour in range(num_hours): ... spot_prices.append(random.uniform(a, b))
SimStep ==
    /\ pc = "sim_loop"
    /\ sim_hour < num_hours
    /\ spot_prices' = Append(spot_prices, SimPrice(sim_hour, rng[1]))
    /\ rng' = Some(DrawAt(rng[1], 1))
    /\ sim_hour' = sim_hour + 1
    /\ UNCHANGED <<pc, caller, exc, num_hours, mainVars, calcParams, calcLocals, result>>

\* return spot_prices
SimReturn ==
    /\ pc = "sim_loop"
    /\ sim_hour >= num_hours
    /\ pc' = IF caller = "main" THEN "main_load" ELSE "done"
    /\ UNCHANGED <<caller, exc, rng, simVars, spot_prices, mainVars, calcParams,
                   calcLocals, result>>

(***************************************************************************)
(* calculate_costs, one action per pass of its innermost loop              *)
(***************************************************************************)
DaysPerMonth == 30

HoursPerDay == 24

\* The first place at or after (c, p, m, d, h) where the five nested for loops
\* run their body; c = Len(data) + 1 when they are exhausted.
RECURSIVE LoopPlace(_, _, _, _, _, _)
LoopPlace(data, c, p, m, d, h) ==
    IF c > Len(data) THEN <<Len(data) + 1, 1, 1, 0, 0>>
    ELSE IF p > Len(data[c].consumption_periods) THEN LoopPlace(data, c + 1, 1, 1, 0, 0)
    ELSE IF m > Len(data[c].consumption_periods[p].months)
         THEN LoopPlace(data, c, p + 1, 1, 0, 0)
    ELSE IF d >= DaysPerMonth THEN LoopPlace(data, c, p, m + 1, 0, 0)
    ELSE IF h >= HoursPerDay THEN LoopPlace(data, c, p, m, d + 1, 0)
    ELSE <<c, p, m, d, h>>

InLoop == ci <= Len(consumption_data)

cpo == consumption_data[ci].consumption_periods[pi]

start == parse_time(cpo.start_time)

stop == parse_time(cpo.stop_time)

kw_draw == cpo.kw_draw

month == cpo.months[mi]

\* hour_idx = (month - 1) * 730 + day * 24 + hour
HourIdx(mo, d, h) == (mo - 1) * HoursPerMonth + d * HoursPerDay + h

hour_idx == HourIdx(month, day, hour)

\* current_hour = start // 3600 + hour
current_hour == start \div 3600 + hour

\* start <= current_hour < stop or stop < start and (current_hour < stop or current_hour >= start)
ActiveWindow_StopInclusive(t0, t1, cur) ==
    \/ (t0 <= cur /\ cur <= t1)
    \/ (t1 < t0 /\ (cur < t1 \/ cur >= t0))

ActiveWindow(t0, t1, cur) ==
    \/ (t0 <= cur /\ cur < t1)
    \/ (t1 < t0 /\ (cur < t1 \/ cur >= t0))

\* 6 <= (current_hour % 24) <= 9 or 17 <= (current_hour % 24) <= 20
CalcPeak(cur) == (6 <= cur % 24 /\ cur % 24 <= 9) \/ (17 <= cur % 24 /\ cur % 24 <= 20)

GoTo(place) ==
    /\ ci' = place[1] /\ pi' = place[2] /\ mi' = place[3]
    /\ day' = place[4] /\ hour' = place[5]

\* Lines 44-47 and the entry of the loops.
CalcEnter ==
    /\ pc = "calc_call"
    /\ total_variable_cost' = FZero
    /\ total_fixed_cost' = IF TruthyF(fixed_total) THEN FMulInt(fixed_total[1], 100)
                           ELSE FZero
    /\ peak_prices' = <<>>
    /\ off_peak_prices' = <<>>
    /\ GoTo(LoopPlace(consumption_data, 1, 1, 1, 0, 0))
    /\ pc' = "calc_loop"
    /\ UNCHANGED <<caller, exc, rng, simVars, spot_prices, mainVars, calcParams, result>>

\* if hour_idx >= len(spot_prices): break  -- leaves the loop over the hours
\* of this day; the loop over the days goes on.
CalcBreak ==
    /\ pc = "calc_loop"
    /\ InLoop
    /\ hour_idx >= Len(spot_prices)
    /\ GoTo(LoopPlace(consumption_data, ci, pi, mi, day + 1, 0))
    /\ UNCHANGED <<pc, caller, exc, rng, simVars, spot_prices, mainVars, calcParams,
                   total_variable_cost, total_fixed_cost, peak_prices,
                   off_peak_prices, result>>

\* An hour outside the window: nothing but the next pass.
CalcInactive ==
    /\ pc = "calc_loop"
    /\ InLoop
    /\ hour_idx < Len(spot_prices)
    /\ ~ActiveWindow(start, stop, current_hour)
    /\ GoTo(LoopPlace(consumption_data, ci, pi, mi, day, hour + 1))
    /\ UNCHANGED <<pc, caller, exc, rng, simVars, spot_prices, mainVars, calcParams,
                   total_variable_cost, total_fixed_cost, peak_prices,
                   off_peak_prices, result>>

\* An hour inside the window: lines 63-69.  fixed_rate + transfer_price raises
\* TypeError when fixed_total is falsy and fixed_rate is None, after the price
\* was appended and the variable cost added.
CalcActive ==
    /\ pc = "calc_loop"
    /\ InLoop
    /\ hour_idx < Len(spot_prices)
    /\ ActiveWindow(start, stop, current_hour)
    /\ LET spot_price == spot_prices[hour_idx + 1]
       IN  /\ IF CalcPeak(current_hour)
              THEN /\ peak_prices' = Append(peak_prices, spot_price)
                   /\ UNCHANGED off_peak_prices
              ELSE /\ off_peak_prices' = Append(off_peak_prices, spot_price)
                   /\ UNCHANGED peak_prices
           /\ total_variable_cost' =
                  FAdd(total_variable_cost, FromInt((spot_price + transfer_price) * kw_draw))
    /\ IF TruthyF(fixed_total)
       THEN /\ total_fixed_cost' = FAdd(total_fixed_cost, FromInt(0))
            /\ GoTo(LoopPlace(consumption_data, ci, pi, mi, day, hour + 1))
            /\ UNCHANGED <<pc, exc>>
       ELSE IF fixed_rate = None
       THEN /\ pc' = "raised"
            /\ exc' = "TypeError"
            /\ UNCHANGED <<total_fixed_cost, ci, pi, mi, day, hour>>
       ELSE /\ total_fixed_cost' =
                   FAdd(total_fixed_cost, FromInt((fixed_rate[1] + transfer_price) * kw_draw))
            /\ GoTo(LoopPlace(consumption_data, ci, pi, mi, day, hour + 1))
            /\ UNCHANGED <<pc, exc>>
    /\ UNCHANGED <<caller, rng, simVars, spot_prices, mainVars, calcParams, result>>

\* max(xs), min(xs) and sum(xs) of a non-empty list, by halves.
RECURSIVE MaxOf(_, _, _)
MaxOf(xs, lo, hi) ==
    IF lo = hi THEN xs[lo]
    ELSE LET mid == (lo + hi) \div 2
             a   == MaxOf(xs, lo, mid)
             b   == MaxOf(xs, mid + 1, hi)
         IN  IF b > a THEN b ELSE a

RECURSIVE MinOf(_, _, _)
MinOf(xs, lo, hi) ==
    IF lo = hi THEN xs[lo]
    ELSE LET mid == (lo + hi) \div 2
             a   == MinOf(xs, lo, mid)
             b   == MinOf(xs, mid + 1, hi)
         IN  IF b < a THEN b ELSE a

RECURSIVE SumOf(_, _, _)
SumOf(xs, lo, hi) ==
    IF lo > hi THEN 0
    ELSE IF lo = hi THEN xs[lo]
    ELSE LET mid == (lo + hi) \div 2
         IN  SumOf(xs, lo, mid) + SumOf(xs, mid + 1, hi)

\* sum(xs) / len(xs) if xs else 0
Average(xs) ==
    IF xs # <<>> THEN FDivInt(FromInt(SumOf(xs, 1, Len(xs))), Len(xs)) ELSE FZero

\* Lines 71-86: the dictionary returned, for a non-empty price series.
Summary_ConsumedOnly(prices, variable_cost, fixed_cost, peak, off_peak) ==
    LET used == IF peak \o off_peak # <<>> THEN peak \o off_peak ELSE <<0>>
        total_fixed_cost_euros    == FDivInt(fixed_cost, 100)
        total_variable_cost_euros == FDivInt(variable_cost, 100)
    IN  [ total_cost_variable_price |-> total_variable_cost_euros,
          highest_variable_price    |-> MaxOf(used, 1, Len(used)),
          lowest_variable_price     |-> MinOf(used, 1, Len(used)),
          average_peak_price        |-> Average(peak),
          average_off_peak_price    |-> Average(off_peak),
          total_cost_fixed_rate     |-> total_fixed_cost_euros,
          savings_with_spot_price   |->
              FSub(total_fixed_cost_euros, total_variable_cost_euros) ]

Summary(prices, variable_cost, fixed_cost, peak, off_peak) ==
    LET total_fixed_cost_euros    == FDivInt(fixed_cost, 100)
        total_variable_cost_euros == FDivInt(variable_cost, 100)
    IN  [ total_cost_variable_price |-> total_variable_cost_euros,
          highest_variable_price    |-> MaxOf(prices, 1, Len(prices)),
          lowest_variable_price     |-> MinOf(prices, 1, Len(prices)),
          average_peak_price        |-> Average(peak),
          average_off_peak_price    |-> Average(off_peak),
          total_cost_fixed_rate     |-> total_fixed_cost_euros,
          savings_with_spot_price   |->
              FSub(total_fixed_cost_euros, total_variable_cost_euros) ]

\* The loops are exhausted: lines 71-86.  max() of an empty list raises
\* ValueError; otherwise the summary is returned.
CalcFinish ==
    /\ pc = "calc_loop"
    /\ ~InLoop
    /\ IF spot_prices = <<>>
       THEN /\ pc' = "raised"
            /\ exc' = "ValueError"
            /\ UNCHANGED result
       ELSE /\ result' = Some(Summary(spot_prices, total_variable_cost, total_fixed_cost,
                                      peak_prices, off_peak_prices))
            /\ pc' = IF caller = "main" THEN "main_print" ELSE "done"
            /\ UNCHANGED exc
    /\ UNCHANGED <<caller, rng, simVars, spot_prices, mainVars, calcParams, calcLocals>>

(***************************************************************************)
(* main                                                                    *)
(***************************************************************************)
\* if not args.fixed_rate and not args.fixed_total: raise ValueError(...)
MainValidate ==
    /\ pc = "main_validate"
    /\ IF ~Truthy(args.fixed_rate) /\ ~TruthyF(args.fixed_total)
       THEN pc' = "raised" /\ exc' = "ConfigError"
       ELSE pc' = "main_seed" /\ UNCHANGED exc
    /\ UNCHANGED <<caller, rng, simVars, spot_prices, mainVars, calcParams, calcLocals,
                   result>>

\* random.seed(args.seed)
MainSeed ==
    /\ pc = "main_seed"
    /\ rng' = Some(Seeded(args.seed))
    /\ pc' = "main_simulate"
    /\ UNCHANGED <<caller, exc, simVars, spot_prices, mainVars, calcParams, calcLocals,
                   result>>

\* spot_prices = simulate_spot_prices(): the call, with the default num_hours.
MainSimulate ==
    /\ pc = "main_simulate"
    /\ num_hours' = DefaultHours
    /\ pc' = "sim_call"
    /\ UNCHANGED <<caller, exc, rng, sim_hour, spot_prices, mainVars, calcParams,
                   calcLocals, result>>

\* consumption_data = load_consumption_data(args.consumption_file): whatever
\* well-formed JSON the file holds.
MainLoad ==
    /\ pc = "main_load"
    /\ consumption_data' \in ConsumptionInputs
    /\ pc' = "main_calculate"
    /\ UNCHANGED <<caller, exc, rng, simVars, spot_prices, mainVars, fixed_rate,
                   transfer_price, fixed_total, calcLocals, result>>

\* result = calculate_costs(consumption_data=..., fixed_total=args.fixed_total)
MainCalculate ==
    /\ pc = "main_calculate"
    /\ fixed_rate' = args.fixed_rate
    /\ transfer_price' = args.transfer_price
    /\ fixed_total' = args.fixed_total
    /\ pc' = "calc_call"
    /\ UNCHANGED <<caller, exc, rng, simVars, spot_prices, mainVars, consumption_data,
                   calcLocals, result>>

\* print(json.dumps(result, indent=4))
MainPrint ==
    /\ pc = "main_print"
    /\ printed' = result
    /\ pc' = "done"
    /\ UNCHANGED <<caller, exc, args, rng, simVars, spot_prices, calcParams, calcLocals,
                   result>>

(***************************************************************************)
(* The specifications: a direct call of calculate_costs (Spec), a direct   *)
(* call of simulate_spot_prices (SpecSim), and a run of main (SpecMain).   *)
(***************************************************************************)
Init ==
    /\ pc = "calc_call"
    /\ caller = "direct"
    /\ exc = "none"
    /\ args = NoArgs
    /\ rng = None
    /\ num_hours = 0
    /\ sim_hour = 0
    /\ spot_prices \in PriceInputs
    /\ consumption_data \in ConsumptionInputs
    /\ fixed_rate \in FixedRateInputs
    /\ transfer_price \in TransferInputs
    /\ fixed_total \in FixedTotalInputs
    /\ CalcIdle
    /\ printed = None

CalcNext == CalcEnter \/ CalcBreak \/ CalcInactive \/ CalcActive \/ CalcFinish

Next == CalcNext

Spec == Init /\ [][Next]_vars

\* Short calls, a call that runs into the third month, and the default year.
NumHoursInputs == (0..MaxLen) \cup {2 * HoursPerMonth + HoursPerDay, DefaultHours}

InitSim ==
    /\ pc = "sim_call"
    /\ caller = "direct"
    /\ exc = "none"
    /\ args = NoArgs
    /\ rng \in {Some(r) : r \in RngStates}
    /\ num_hours \in NumHoursInputs
    /\ sim_hour = 0
    /\ spot_prices = <<>>
    /\ consumption_data = <<>>
    /\ fixed_rate = None
    /\ transfer_price = 0
    /\ fixed_total = None
    /\ CalcIdle
    /\ printed = None

SimNext == SimEnter \/ SimStep \/ SimReturn

SpecSim == InitSim /\ [][SimNext]_vars

\* What parse_args may return.
ArgsInputs ==
    [seed : 0..MaxSeed, fixed_rate : FixedRateInputs,
     fixed_total : FixedTotalInputs, transfer_price : TransferInputs]

InitMain ==
    /\ pc = "main_validate"
    /\ caller = "main"
    /\ exc = "none"
    /\ args \in ArgsInputs
    /\ rng = None
    /\ num_hours = 0
    /\ sim_hour = 0
    /\ spot_prices = <<>>
    /\ consumption_data = <<>>
    /\ fixed_rate = None
    /\ transfer_price = 0
    /\ fixed_total = None
    /\ CalcIdle
    /\ printed = None

\* With the 8760 hours main simulates and months in 1..12, hour_idx is at most
\* 11 * 730 + 29 * 24 + 23 = 8749: the break of line 60 is never taken in a
\* run of main (MainNeverOverruns), so CalcBreak is no step of it.
MainNext ==
    \/ MainValidate \/ MainSeed \/ MainSimulate \/ MainLoad \/ MainCalculate \/ MainPrint
    \/ SimNext
    \/ CalcEnter \/ CalcInactive \/ CalcActive \/ CalcFinish

SpecMain == InitMain /\ [][MainNext]_vars

(***************************************************************************)
(* SpecMainCalc: a run of main from the return of simulate_spot_prices on  *)
(* (line 106), where SpecMain arrives by MainAfterSimulation.              *)
(***************************************************************************)
AfterSimulation ==
    /\ pc = "main_load"
    /\ caller = "main"
    /\ exc = "none"
    /\ Truthy(args.fixed_rate) \/ TruthyF(args.fixed_total)
    /\ rng = Some(DrawAt(Seeded(args.seed), DefaultHours))
    /\ num_hours = DefaultHours
    /\ sim_hour = DefaultHours
    /\ spot_prices = simulate_spot_prices(DefaultHours, Seeded(args.seed))
    /\ consumption_data = <<>>
    /\ fixed_rate = None
    /\ transfer_price = 0
    /\ fixed_total = None
    /\ CalcIdle
    /\ printed = None

InitMainCalc == args \in ArgsInputs /\ AfterSimulation

MainCalcNext ==
    \/ MainLoad \/ MainCalculate \/ MainPrint
    \/ CalcEnter \/ CalcInactive \/ CalcActive \/ CalcFinish

SpecMainCalc == InitMainCalc /\ [][MainCalcNext]_vars

MainAfterSimulation == (caller = "main" /\ pc = "main_load") => AfterSimulation

MainNeverOverruns ==
    (caller = "main" /\ pc = "calc_loop" /\ InLoop) => hour_idx < Len(spot_prices)

\* The stepwise loop of simulate_spot_prices returns what the whole call is.
SimLoopIsWholeCall ==
    (pc = "sim_loop" /\ rng # None) =>
        \E r \in RngStates :
            /\ rng[1] = DrawAt(r, sim_hour)
            /\ (sim_hour >= num_hours => spot_prices = simulate_spot_prices(num_hours, r))

(***************************************************************************)
(* The claims                                                              *)
(***************************************************************************)
Returned == result # None

\* C1: a direct call of calculate_costs with fixed_rate and fixed_total both
\* None ends in a configuration error before anything is computed, and returns
\* no summary, whatever the consumption data and the price series.  Stated of
\* the non-empty price series, where max() and min() of lines 71-72 cannot
\* raise either.
C1_NeitherSuppliedFailsFast ==
    (caller = "direct" /\ fixed_rate = None /\ fixed_total = None
        /\ spot_prices # <<>> /\ pc \in {"done", "raised"})
        => /\ pc = "raised"
           /\ exc = "ConfigError"
           /\ result = None
           /\ peak_prices = <<>> /\ off_peak_prices = <<>>

OptionPresent == args.fixed_rate # None \/ args.fixed_total # None

\* C2: main goes on to the core (seeding first) exactly when --fixed_rate or
\* --fixed_total is on the command line, whatever number it carries; with
\* neither, it ends in the configuration error, the generator unseeded and
\* nothing simulated.
C2_CoreReachedIffOptionPresent ==
    (caller = "main" /\ pc # "main_validate")
        => /\ (pc = "raised" /\ exc = "ConfigError") <=> ~OptionPresent
           /\ exc = "ConfigError" => (rng = None /\ spot_prices = <<>> /\ result = None)

\* C3: whenever fixed_total is supplied, whatever its value and whether or not
\* fixed_rate is supplied too, the total_cost_fixed_rate returned equals it.
C3_FixedTotalIsReturned ==
    (caller = "direct" /\ pc = "done" /\ fixed_total # None)
        => result[1].total_cost_fixed_rate = fixed_total[1]

\* C4: the summary's highest_variable_price and lowest_variable_price are the
\* largest and the smallest price of the whole series, consumed or not.
C4_HighLowOverWholeSeries ==
    Returned =>
        LET hi == result[1].highest_variable_price
            lo == result[1].lowest_variable_price
        IN  /\ \E i \in 1..Len(spot_prices) : spot_prices[i] = hi
            /\ \E i \in 1..Len(spot_prices) : spot_prices[i] = lo
            /\ \A i \in 1..Len(spot_prices) : lo <= spot_prices[i] /\ spot_prices[i] <= hi

\* A summary of a run that consumed some hours, all of them at prices below
\* the highest of the series.
C4_Witness ==
    /\ Returned
    /\ peak_prices \o off_peak_prices # <<>>
    /\ \A i \in 1..Len(peak_prices \o off_peak_prices) :
           (peak_prices \o off_peak_prices)[i] < result[1].highest_variable_price

\* C5: with an empty consumption_data and fixed_rate a number, the call returns
\* a variable total of 0, a fixed total of 0 (fixed_total absent) or of
\* fixed_total (present), and their difference as the savings.
C5_EmptyConsumption ==
    (caller = "direct" /\ pc \in {"done", "raised"} /\ consumption_data = <<>>
        /\ fixed_rate # None)
        => /\ Returned
           /\ result[1].total_cost_variable_price = FZero
           /\ result[1].total_cost_fixed_rate =
                  (IF fixed_total = None THEN FZero ELSE fixed_total[1])
           /\ result[1].savings_with_spot_price =
                  FSub(result[1].total_cost_fixed_rate, result[1].total_cost_variable_price)

\* The season and peak table of the claim, for hour index h.
ClaimedRange(h) ==
    LET m    == ((h \div 730) % 12) + 1
        peak == (h % 24) \in (6..9) \cup (17..20)
    IN  CASE m \in {12, 1, 2}  -> IF peak THEN <<8, 20>> ELSE <<2, 10>>
          [] m \in {3, 4, 5}   -> IF peak THEN <<5, 15>> ELSE <<-1, 5>>
          [] m \in {6, 7, 8}   -> IF peak THEN <<4, 12>> ELSE <<-4, 4>>
          [] m \in {9, 10, 11} -> IF peak THEN <<6, 16>> ELSE <<2, 6>>

\* C6: simulate_spot_prices(N) returns exactly N prices, the price at each
\* index h within the bounds (inclusive) the table gives for h.
C6_LengthAndRanges ==
    (caller = "direct" /\ pc = "done" /\ rng # None)
        => /\ Len(spot_prices) = num_hours
           /\ \A h \in 0..(num_hours - 1) :
                  /\ ClaimedRange(h)[1] <= spot_prices[h + 1]
                  /\ spot_prices[h + 1] <= ClaimedRange(h)[2]

\* A returned series that runs from winter into spring, with a price on the
\* lowest bound of spring (a negative price) and one on the highest of winter.
C6_Witness ==
    /\ caller = "direct" /\ pc = "done" /\ rng # None
    /\ num_hours = 2 * HoursPerMonth + HoursPerDay
    /\ Len(spot_prices) = num_hours
    /\ \E h \in 1..Len(spot_prices) : spot_prices[h] = -1
    /\ \E h \in 1..Len(spot_prices) : spot_prices[h] = 20

\* The window of the claim, start_time and stop_time in seconds.
ClaimedActive ==
    LET cur == (start \div 3600) + hour
    IN  \/ (start <= stop /\ start <= cur /\ cur < stop)
        \/ (stop < start /\ (cur < stop \/ cur >= start))

\* C7: a pass of the loop whose hour_idx is inside the series appends the price
\* to one of the two lists and adds its cost to the accumulators exactly when
\* the hour is in the window; a pass outside the window changes none of them.
\* (The addition to the fixed accumulator is the one of line 69, which raises
\* when fixed_total is falsy and fixed_rate is None.)
C7_ActiveExactlyInWindow ==
    [][ (pc = "calc_loop" /\ InLoop /\ hour_idx < Len(spot_prices)) =>
          LET price == spot_prices[hour_idx + 1]
              cost  == FromInt((price + transfer_price) * kw_draw)
          IN  IF ClaimedActive
              THEN /\ \/ (peak_prices' = Append(peak_prices, price)
                            /\ off_peak_prices' = off_peak_prices)
                      \/ (off_peak_prices' = Append(off_peak_prices, price)
                            /\ peak_prices' = peak_prices)
                   /\ total_variable_cost' = FAdd(total_variable_cost, cost)
                   /\ IF TruthyF(fixed_total) THEN total_fixed_cost' = total_fixed_cost
                      ELSE IF fixed_rate = None THEN exc' = "TypeError"
                      ELSE total_fixed_cost' =
                               FAdd(total_fixed_cost,
                                    FromInt((fixed_rate[1] + transfer_price) * kw_draw))
              ELSE UNCHANGED <<peak_prices, off_peak_prices, total_variable_cost,
                               total_fixed_cost>>
      ]_vars

\* The 00:00:05-00:00:09 window at hour 9 of the first day: hours 5 to 8 were
\* active (one off-peak, three peak), hours 0 to 4 were not.
C7_Witness ==
    /\ pc = "calc_loop" /\ InLoop
    /\ cpo = SecondsPeriod
    /\ day = 0 /\ hour = 9
    /\ Len(peak_prices) = 3 /\ Len(off_peak_prices) = 1

\* An earlier pass of the current period met hour_idx >= len(spot_prices).
OverrunBefore ==
    \E m2 \in 1..mi :
      \E d2 \in 0..(IF m2 = mi THEN day ELSE DaysPerMonth - 1) :
        \E h2 \in 0..(IF m2 = mi /\ d2 = day THEN hour - 1 ELSE HoursPerDay - 1) :
            HourIdx(cpo.months[m2], d2, h2) >= Len(spot_prices)

\* C8: the pass that meets hour_idx >= len(spot_prices) raises no error and
\* adds nothing; once a period has met it, nothing later in that period is
\* added to the accumulators or the price lists; and every index read is in
\* 0..len(spot_prices)-1.  Stated of the calls main's validation admits (a
\* truthy fixed_rate or fixed_total), where line 69 cannot raise.
C8_NothingAfterOverrun ==
    [][ (pc = "calc_loop" /\ InLoop /\ (Truthy(fixed_rate) \/ TruthyF(fixed_total))) =>
          /\ exc' = "none"
          /\ (hour_idx >= Len(spot_prices) \/ OverrunBefore) =>
                 UNCHANGED <<peak_prices, off_peak_prices, total_variable_cost,
                             total_fixed_cost>>
          /\ (peak_prices' # peak_prices \/ off_peak_prices' # off_peak_prices) =>
                 hour_idx \in 0..(Len(spot_prices) - 1)
      ]_vars

\* C9: over the series main had simulated, an active hour's price goes to
\* peak_prices exactly when the simulator drew index hour_idx as a peak hour.
C9_PeakAgreesWithSimulator ==
    [][ (caller = "main" /\ pc = "calc_loop" /\ InLoop
           /\ (peak_prices' # peak_prices \/ off_peak_prices' # off_peak_prices)) =>
          (peak_prices' # peak_prices <=> SimPeak(hour_idx))
      ]_vars

\* One entry with one period a:00:00-b:00:00, 0 <= a < b <= 23, in one month.
WholeHourWindow ==
    /\ Len(consumption_data) = 1
    /\ Len(consumption_data[1].consumption_periods) = 1
    /\ LET p == consumption_data[1].consumption_periods[1]
       IN  /\ p.start_time[2] = 0 /\ p.start_time[3] = 0
           /\ p.stop_time[2] = 0 /\ p.stop_time[3] = 0
           /\ 0 <= p.start_time[1] /\ p.start_time[1] < p.stop_time[1]
           /\ p.stop_time[1] <= 23
           /\ Len(p.months) = 1 /\ p.months[1] \in 1..12

\* C10: over the default 8760-hour series, such a period is counted b - a
\* active hours on each of the 30 days of its month: b - a more prices in the
\* lists at the end of each day, 30 * (b - a) in the summary's run.
C10_WindowChargedForItsLength ==
    (caller = "main" /\ Len(spot_prices) = 8760 /\ WholeHourWindow)
        => LET p     == consumption_data[1].consumption_periods[1]
               count == Len(peak_prices) + Len(off_peak_prices)
           IN  /\ (pc = "calc_loop" /\ InLoop /\ hour = 0) =>
                      count = day * (p.stop_time[1] - p.start_time[1])
               /\ Returned => count = 30 * (p.stop_time[1] - p.start_time[1])

====
